---- MODULE Spec2Model ----
(***************************************************************************)
(* Verification model of kafka-avro-cli: the JSON -> Avro value mapper     *)
(* (src/avro.rs to_avro), the schema-id framing (src/registry.rs           *)
(* append_schema_id, src/avro.rs encode), and the publish pipeline         *)
(* (src/main.rs produce, src/producer.rs Producer::produce).               *)
(***************************************************************************)
EXTENDS Integers, Sequences, FiniteSets, TLC

(***************************************************************************)
(* Bounds of the model.                                                    *)
(***************************************************************************)
MaxElems == 2     \* longest JSON array / number of JSON object entries
MaxBranches == 2  \* most branches of a union schema
MaxBatch == 3     \* most payload lines of one run
MaxBody == 2      \* longest Avro body handed to the framing

(***************************************************************************)
(* Integer widths.  A 64-bit magnitude is kept as three limbs              *)
(* top * 2^62 + hi * 2^31 + lo, so that no model integer leaves 32 bits.   *)
(***************************************************************************)
I32Max == 2147483647
I32Min == (0 - I32Max) - 1

\* serde_json::Number variants: PosInt(u64), NegInt(i64), Float(f64).
PosInt(top, hi, lo) == [form |-> "PosInt", top |-> top, hi |-> hi, lo |-> lo]
NegInt(top, hi, lo) == [form |-> "NegInt", top |-> top, hi |-> hi, lo |-> lo]
\* a finite f64 of value (-1)^neg * m * 2^e
Float64(neg, m, e) == [form |-> "Float", neg |-> neg, m |-> m, e |-> e]

\* Number::is_i64: PosInt(v) if v <= i64::MAX, every NegInt, no Float.
is_i64(n) ==
    CASE n.form = "PosInt" -> n.top <= 1
      [] n.form = "NegInt" -> TRUE
      [] OTHER -> FALSE

\* Number::is_f64: only the Float variant.
is_f64(n) == n.form = "Float"

\* `n.as_f64().unwrap() as i32` for an integral n: the f64 conversion is
\* monotone and the float-to-int cast saturates, so the result is n clamped
\* to the i32 range.
as_i32(n) ==
    IF n.form = "PosInt"
    THEN IF n.top = 0 /\ n.hi = 0 THEN n.lo ELSE I32Max
    ELSE IF n.top = 0 /\ n.hi = 0 THEN 0 - n.lo ELSE I32Min

\* `x as f32` for a finite f64 m * 2^e: the mantissa is rounded to 24 bits,
\* ties to even.
RECURSIVE Pow2(_)
Pow2(k) == IF k = 0 THEN 1 ELSE 2 * Pow2(k - 1)

RECURSIVE Shift24(_, _)
Shift24(m, k) == IF m \div Pow2(k) < Pow2(24) THEN k ELSE Shift24(m, k + 1)

as_f32(x) ==
    LET k == Shift24(x.m, 0)
        q == x.m \div Pow2(k)
        rest == x.m % Pow2(k)
        half == IF k = 0 THEN 0 ELSE Pow2(k - 1)
        up == k > 0 /\ (rest > half \/ (rest = half /\ q % 2 = 1))
    IN  [neg |-> x.neg, m |-> IF up THEN q + 1 ELSE q, e |-> x.e + k]

(***************************************************************************)
(* JSON values (serde_json::Value).  An object is its entries in the       *)
(* map's iteration order, keys pairwise distinct.                          *)
(***************************************************************************)
JNull == [j |-> "Null"]
JBool(b) == [j |-> "Bool", b |-> b]
JNumber(n) == [j |-> "Number", n |-> n]
JString(s) == [j |-> "String", s |-> s]
JArray(vs) == [j |-> "Array", elems |-> vs]
JObject(es) == [j |-> "Object", entries |-> es]

(***************************************************************************)
(* Avro schemas (avro_rs::Schema) and values (avro_rs::types::Value).      *)
(***************************************************************************)
SNull == [k |-> "Null"]
SBoolean == [k |-> "Boolean"]
SInt == [k |-> "Int"]
SLong == [k |-> "Long"]
SFloat == [k |-> "Float"]
SDouble == [k |-> "Double"]
SString == [k |-> "String"]
SBytes == [k |-> "Bytes"]
SArray(el) == [k |-> "Array", items |-> el]
SMap(el) == [k |-> "Map", values |-> el]
SRecord(fs) == [k |-> "Record", fields |-> fs]
SEnum(syms) == [k |-> "Enum", symbols |-> syms]
SUnion(ss) == [k |-> "Union", schemas |-> ss]

VNull == [t |-> "Null"]
VBoolean(b) == [t |-> "Boolean", b |-> b]
VInt(i) == [t |-> "Int", i |-> i]
VLong(n) == [t |-> "Long", l |-> n]
VFloat(f) == [t |-> "Float", f |-> f]
VDouble(d) == [t |-> "Double", d |-> d]
VString(s) == [t |-> "String", s |-> s]
VArray(items) == [t |-> "Array", items |-> items]
VMap(m) == [t |-> "Map", entries |-> m]
VRecord(fs) == [t |-> "Record", fields |-> fs]
VUnion(v) == [t |-> "Union", inner |-> v]

\* Result<AvroValue, ()>, and the unwinding of a panic.
Ok(v) == [tag |-> "Ok", val |-> v]
Err == [tag |-> "Err"]
Panic == [tag |-> "Panic"]

(***************************************************************************)
(* The value mapper, src/avro.rs to_avro.                                  *)
(***************************************************************************)
\* UnionSchema::find_schema for a value of a plain (non-logical) kind: the
\* position of the branch of that kind, 0 for None.  A union holds at most
\* one branch of each kind and no union.
find_schema(union_schema, kind) ==
    LET hits == {i \in 1..Len(union_schema) : union_schema[i].k = kind}
    IN  IF hits = {} THEN 0 ELSE CHOOSE i \in hits : \A h \in hits : i <= h

\* Option::or_else over two find_schema results.
or_else(first, second) == IF first # 0 THEN first ELSE second

\* `lookup.get(key)`: the position of the field named key, 0 for None.
lookup_get(fields, key) ==
    LET hits == {i \in 1..Len(fields) : fields[i].name = key}
    IN  IF hits = {} THEN 0 ELSE CHOOSE i \in hits : TRUE

\* `.map(|v| f(v).unwrap()).collect()`: any element that is not Ok unwinds.
AllOk(rs) == \A i \in 1..Len(rs) : rs[i].tag = "Ok"

\* The union's branch for a JSON number: Long, else Int, when is_i64;
\* Double, else Float, when is_f64.
number_branch(union_schema, n) ==
    IF is_i64(n)
    THEN or_else(find_schema(union_schema, "Long"), find_schema(union_schema, "Int"))
    ELSE or_else(find_schema(union_schema, "Double"), find_schema(union_schema, "Float"))

\* The union's branch for a JSON object: Record, else Map.
object_branch(union_schema) ==
    or_else(find_schema(union_schema, "Record"), find_schema(union_schema, "Map"))

\* What the Union arm returns for JSON null and for a JSON boolean.
union_null(union_schema) == Ok(VUnion(VNull))
union_bool(union_schema, b) == Ok(VUnion(VBoolean(b)))

\* The Enum arm.
enum_arm(symbols, s) == Err

RECURSIVE to_avro(_, _)
\* The Record arm: one entry per entry of the JSON object, in the object's
\* iteration order.
record_arm(fields, entries) ==
    LET idx == [i \in 1..Len(entries) |-> lookup_get(fields, entries[i].key)]
    IN  IF \E i \in 1..Len(entries) : idx[i] = 0
        THEN Panic
        ELSE LET rs == [i \in 1..Len(entries) |->
                           to_avro(entries[i].value, fields[idx[i]].schema)]
             IN  IF AllOk(rs)
                 THEN Ok(VRecord([i \in 1..Len(entries) |->
                                    [name |-> entries[i].key, value |-> rs[i].val]]))
                 ELSE Panic

array_arm(el, vs) ==
    LET rs == [i \in 1..Len(vs) |-> to_avro(vs[i], el)]
    IN  IF AllOk(rs) THEN Ok(VArray([i \in 1..Len(vs) |-> rs[i].val])) ELSE Panic

map_arm(el, entries) ==
    LET rs == [i \in 1..Len(entries) |-> to_avro(entries[i].value, el)]
        keys == {entries[i].key : i \in 1..Len(entries)}
        at(key) == CHOOSE i \in 1..Len(entries) : entries[i].key = key
    IN  IF AllOk(rs) THEN Ok(VMap([key \in keys |-> rs[at(key)].val])) ELSE Panic

\* `find_schema(..).unwrap()` then `to_avro(json_value, schema)`: the
\* branch's result is returned as it is.
into_branch(json, union_schema, i) ==
    IF i = 0 THEN Panic ELSE to_avro(json, union_schema[i])

union_arm(union_schema, json) ==
    CASE json.j = "Null" -> union_null(union_schema)
      [] json.j = "Bool" -> union_bool(union_schema, json.b)
      [] json.j = "Number" ->
            IF is_i64(json.n) \/ is_f64(json.n)
            THEN into_branch(json, union_schema, number_branch(union_schema, json.n))
            ELSE Err
      [] json.j = "String" ->
            into_branch(json, union_schema, find_schema(union_schema, "String"))
      [] json.j = "Array" ->
            into_branch(json, union_schema, find_schema(union_schema, "Array"))
      [] json.j = "Object" ->
            into_branch(json, union_schema, object_branch(union_schema))

to_avro(json, schema) ==
    CASE schema.k = "Null" /\ json.j = "Null" -> Ok(VNull)
      [] schema.k = "Boolean" /\ json.j = "Bool" -> Ok(VBoolean(json.b))
      [] schema.k = "Int" /\ json.j = "Number" /\ is_i64(json.n) ->
            Ok(VInt(as_i32(json.n)))
      [] schema.k = "Long" /\ json.j = "Number" /\ is_i64(json.n) ->
            Ok(VLong(json.n))
      [] schema.k = "Float" /\ json.j = "Number" /\ is_f64(json.n) ->
            Ok(VFloat(as_f32(json.n)))
      [] schema.k = "Double" /\ json.j = "Number" /\ is_f64(json.n) ->
            Ok(VDouble([neg |-> json.n.neg, m |-> json.n.m, e |-> json.n.e]))
      [] schema.k = "String" /\ json.j = "String" -> Ok(VString(json.s))
      [] schema.k = "Array" /\ json.j = "Array" -> array_arm(schema.items, json.elems)
      [] schema.k = "Map" /\ json.j = "Object" -> map_arm(schema.values, json.entries)
      [] schema.k = "Record" /\ json.j = "Object" ->
            record_arm(schema.fields, json.entries)
      [] schema.k = "Enum" /\ json.j = "String" -> enum_arm(schema.symbols, json.s)
      [] schema.k = "Union" -> union_arm(schema.schemas, json)
      [] OTHER -> Err

(***************************************************************************)
(* Value::validate of avro_rs, which to_avro_datum applies before it       *)
(* writes: the structural conformance of a value with a schema.  A union   *)
(* schema is met only by a Union value whose inner value has the kind of   *)
(* one of the branches; a record by its fields in the schema's order.      *)
(***************************************************************************)
RECURSIVE validate(_, _)
validate(v, schema) ==
    CASE v.t = "Null" -> schema.k = "Null"
      [] v.t = "Boolean" -> schema.k = "Boolean"
      [] v.t = "Int" -> schema.k = "Int"
      [] v.t = "Long" -> schema.k = "Long"
      [] v.t = "Float" -> schema.k = "Float"
      [] v.t = "Double" -> schema.k = "Double"
      [] v.t = "String" ->
            \/ schema.k = "String"
            \/ schema.k = "Enum" /\ \E i \in 1..Len(schema.symbols) : schema.symbols[i] = v.s
      [] v.t = "Array" ->
            schema.k = "Array" /\ \A i \in 1..Len(v.items) : validate(v.items[i], schema.items)
      [] v.t = "Map" ->
            schema.k = "Map"
            /\ \A key \in DOMAIN v.entries : validate(v.entries[key], schema.values)
      [] v.t = "Record" ->
            /\ schema.k = "Record"
            /\ Len(v.fields) = Len(schema.fields)
            /\ \A i \in 1..Len(v.fields) :
                   /\ v.fields[i].name = schema.fields[i].name
                   /\ validate(v.fields[i].value, schema.fields[i].schema)
      [] v.t = "Union" ->
            /\ schema.k = "Union"
            /\ v.inner.t # "Union"
            /\ find_schema(schema.schemas, v.inner.t) # 0
      [] OTHER -> FALSE

(***************************************************************************)
(* Inputs of the mapper: JSON values and schemas up to the bounds.         *)
(***************************************************************************)
Numbers ==
    { PosInt(0, 0, 0), PosInt(0, 0, 1), PosInt(0, 0, I32Max), PosInt(0, 1, 0),
      PosInt(1, I32Max, I32Max), PosInt(2, 0, 0),
      NegInt(0, 0, 1), NegInt(0, 1, 0), NegInt(0, 1, 1), NegInt(2, 0, 0),
      Float64(FALSE, 3, -1), Float64(FALSE, 1, 0), Float64(TRUE, 1, -1),
      Float64(FALSE, Pow2(24) + 1, 0) }

Scalars ==
    {JNull, JBool(TRUE), JBool(FALSE), JString("x"), JString("A")}
    \cup {JNumber(n) : n \in Numbers}

\* the values met inside arrays and objects
Elems == {JNull, JBool(TRUE), JNumber(PosInt(0, 0, 1)), JNumber(Float64(FALSE, 3, -1)),
          JString("x")}

SeqsUpTo(S, n) == UNION {[1..len -> S] : len \in 0..n}

Keys == <<"a", "b", "c">>

\* the entries of an object over the keys at positions K, in key order
Entries(K, vals) ==
    LET pos == CHOOSE f \in [1..Cardinality(K) -> K] :
                  \A x, y \in 1..Cardinality(K) : x < y => f[x] < f[y]
    IN  [i \in 1..Cardinality(K) |-> [key |-> Keys[pos[i]], value |-> vals[i]]]

Objects ==
    UNION { {JObject(Entries(K, vals)) : vals \in [1..Cardinality(K) -> Elems]} :
            K \in {K \in SUBSET (1..Len(Keys)) : Cardinality(K) <= MaxElems} }

JsonValues == Scalars \cup {JArray(vs) : vs \in SeqsUpTo(Elems, MaxElems)} \cup Objects

Prims == {SNull, SBoolean, SInt, SLong, SFloat, SDouble, SString, SBytes}

NullableString == SUnion(<<SNull, SString>>)

FieldSchemas == {SString, SInt, NullableString}

Field(name, schema) == [name |-> name, schema |-> schema]

Records ==
    {SRecord(<<Field(n, s)>>) : n \in {"a", "b"}, s \in FieldSchemas}
    \cup {SRecord(<<Field(n[1], s1), Field(n[2], s2)>>) :
             n \in {<<"a", "b">>, <<"b", "a">>}, s1 \in FieldSchemas, s2 \in FieldSchemas}

Branches ==
    {SNull, SBoolean, SInt, SLong, SFloat, SDouble, SString,
     SArray(SInt), SMap(SString), SRecord(<<Field("a", SString)>>)}

\* a union holds at most one branch of each kind
Unions ==
    {SUnion(ss) : ss \in {ss \in SeqsUpTo(Branches, MaxBranches) :
                            /\ Len(ss) >= 1
                            /\ \A x, y \in 1..Len(ss) : x # y => ss[x].k # ss[y].k}}

Schemas ==
    Prims \cup Records \cup Unions
    \cup {SEnum(<<"A", "B">>), SArray(SInt), SArray(SString), SArray(NullableString),
          SMap(SString), SMap(SInt)}

(***************************************************************************)
(* Wire codec: Avro binary datum and the schema-id frame.                  *)
(***************************************************************************)
\* A u32 as top * 2^31 + low, top in 0..1 and low in 0..2^31-1.
U32(top, low) == [top |-> top, low |-> low]

\* the bytes of a u32, least significant first
to_le_bytes(id) ==
    << id.low % 256,
       (id.low \div Pow2(8)) % 256,
       (id.low \div Pow2(16)) % 256,
       (id.top * 128) + (id.low \div Pow2(24)) >>

\* u32::to_be_bytes
to_be_bytes(id) ==
    << (id.top * 128) + (id.low \div Pow2(24)),
       (id.low \div Pow2(16)) % 256,
       (id.low \div Pow2(8)) % 256,
       id.low % 256 >>

\* registry.rs append_schema_id: the magic byte 0, the id big-endian, the body.
append_schema_id(id, encoded_bytes) == <<0>> \o to_be_bytes(id) \o encoded_bytes

\* schema_registry_common::get_payload, the same layout, as avro.rs encode
\* calls it.
get_payload(id, encoded_bytes) == <<0>> \o to_be_bytes(id) \o encoded_bytes

\* Avro's zig-zag variable-length integer, for |n| < 2^30.
RECURSIVE varint(_)
varint(z) == IF z < 128 THEN <<z>> ELSE <<128 + (z % 128)>> \o varint(z \div 128)

zigzag(n) == IF n >= 0 THEN 2 * n ELSE (0 - 2 * n) - 1

encode_long(n) == varint(zigzag(n))

\* the UTF-8 bytes of the strings the model uses
utf8(s) ==
    CASE s = "x" -> <<120>>
      [] s = "A" -> <<65>>
      [] s = "a" -> <<97>>
      [] s = "b" -> <<98>>
      [] s = "c" -> <<99>>
      [] s = "\"x\"" -> <<34, 120, 34>>
      [] s = "null" -> <<110, 117, 108, 108>>
      [] s = "1" -> <<49>>
      [] s = "true" -> <<116, 114, 117, 101>>
      [] s = "{" -> <<123>>

RECURSIVE Concat(_)
Concat(seqs) == IF seqs = <<>> THEN <<>> ELSE Head(seqs) \o Concat(Tail(seqs))

\* avro_rs encode of a valid value of the kinds the pipeline's inputs give:
\* null, boolean, int and long below 2^30, string, array, record, union.
RECURSIVE avro_bytes(_, _)
avro_bytes(v, sch) ==
    CASE v.t = "Null" -> <<>>
      [] v.t = "Boolean" -> IF v.b THEN <<1>> ELSE <<0>>
      [] v.t = "Int" -> encode_long(v.i)
      [] v.t = "Long" -> encode_long(IF v.l.form = "PosInt" THEN v.l.lo ELSE 0 - v.l.lo)
      [] v.t = "String" -> encode_long(Len(utf8(v.s))) \o utf8(v.s)
      [] v.t = "Array" ->
            (IF Len(v.items) = 0 THEN <<>>
             ELSE encode_long(Len(v.items))
                  \o Concat([i \in 1..Len(v.items) |-> avro_bytes(v.items[i], sch.items)]))
            \o <<0>>
      [] v.t = "Record" ->
            Concat([i \in 1..Len(v.fields) |->
                       avro_bytes(v.fields[i].value, sch.fields[i].schema)])
      [] v.t = "Union" ->
            LET i == find_schema(sch.schemas, v.inner.t)
            IN  encode_long(i - 1) \o avro_bytes(v.inner, sch.schemas[i])

\* Result<Vec<u8>, avro_rs::Error>
OkBytes(bs) == [tag |-> "Ok", bytes |-> bs]

\* avro_rs::to_avro_datum: validation, then the binary encoding.
to_avro_datum(sch, v) == IF validate(v, sch) THEN OkBytes(avro_bytes(v, sch)) ELSE Err

\* avro.rs encode: `to_avro_datum(..).map(|bytes| get_payload(schema_id, bytes))`.
encode(datum, schema_id) ==
    IF datum.tag = "Ok" THEN OkBytes(get_payload(schema_id, datum.bytes)) ELSE datum

VARIABLES json, schema, mapped

mapVars == <<json, schema, mapped>>

VARIABLES schema_id, datum, framed

frameVars == <<schema_id, datum, framed>>

VARIABLES ctx, payload, pc, idx, jsons, run_schema, avros, encoded, broker, chan,
          received, result

pipeVars == <<ctx, payload, pc, idx, jsons, run_schema, avros, encoded, broker, chan,
              received, result>>

VARIABLES method, resp, reg_result

regVars == <<method, resp, reg_result>>

vars == <<mapVars, frameVars, pipeVars, regVars>>

NotMapped == [tag |-> "None"]

\* the variables of the pipeline while another component runs
PipeIdle ==
    /\ ctx = [is_avro |-> FALSE, registry |-> FALSE, schema |-> SNull]
    /\ payload = <<>>
    /\ pc = "idle"
    /\ idx = 0
    /\ jsons = <<>>
    /\ run_schema = [id |-> U32(0, 0), schema |-> SNull]
    /\ avros = <<>>
    /\ encoded = <<>>
    /\ broker = <<>>
    /\ chan = <<>>
    /\ received = <<>>
    /\ result = "none"

\* no response of the registry yet
NoResp == [synthetic |-> FALSE, status |-> 0, body |-> [kind |-> "None"]]

\* the variables of the registry client while another component runs
RegIdle == method = "none" /\ resp = NoResp /\ reg_result = NotMapped

\* the variables of the mapper while another component runs
MapIdle == json = JNull /\ schema = SNull /\ mapped = NotMapped

\* the variables of the framing while another component runs
FrameIdle == schema_id = U32(0, 0) /\ datum = Err /\ framed = NotMapped

MapInit ==
    /\ json \in JsonValues
    /\ schema \in Schemas
    /\ mapped = NotMapped
    /\ FrameIdle
    /\ PipeIdle
    /\ RegIdle

\* One call of to_avro.
MapValue ==
    /\ mapped = NotMapped
    /\ mapped' = to_avro(json, schema)
    /\ UNCHANGED <<json, schema>>
    /\ UNCHANGED <<frameVars, pipeVars, regVars>>

MapNext == MapValue

SpecMap == MapInit /\ [][MapNext]_vars

(***************************************************************************)
(* The framing on its own: every id and every body.                        *)
(***************************************************************************)
SchemaIds ==
    { U32(0, 0), U32(0, 1), U32(0, 255), U32(0, 256), U32(0, 65536),
      U32(0, 16909060), U32(0, I32Max), U32(1, 0), U32(1, 1), U32(1, I32Max) }

Bytes == {0, 1, 128, 255}

Bodies == SeqsUpTo(Bytes, MaxBody)

FrameInit ==
    /\ schema_id \in SchemaIds
    /\ datum \in {OkBytes(b) : b \in Bodies} \cup {Err}
    /\ framed = NotMapped
    /\ MapIdle
    /\ PipeIdle
    /\ RegIdle

\* avro.rs encode on the datum to_avro_datum gave.
EncodeFramed ==
    /\ framed = NotMapped
    /\ framed' = encode(datum, schema_id)
    /\ UNCHANGED <<schema_id, datum>>
    /\ UNCHANGED <<mapVars, pipeVars, regVars>>

\* registry.rs append_schema_id on an encoded body.
AppendSchemaId ==
    /\ framed = NotMapped
    /\ datum.tag = "Ok"
    /\ framed' = OkBytes(append_schema_id(schema_id, datum.bytes))
    /\ UNCHANGED <<schema_id, datum>>
    /\ UNCHANGED <<mapVars, pipeVars, regVars>>

FrameNext == EncodeFramed \/ AppendSchemaId

SpecFrame == FrameInit /\ [][FrameNext]_vars

\* ---- registry.rs: the registry client ----

\* errors of RegistryError that do_request returns
RNotFound == [tag |-> "NotFound"]
RInvalid == [tag |-> "Invalid"]
RConflict == [tag |-> "Conflict"]
RRegistryInternal == [tag |-> "RegistryInternal"]
RInternal(text) == [tag |-> "Internal", text |-> text]
RIo == [tag |-> "Io"]

\* response bodies: the JSON of GetResp, the JSON of PostResp, anything else
GetBody(id, raw) == [kind |-> "GetResp", id |-> id, schema |-> raw]
PostBody(id) == [kind |-> "PostResp", id |-> id]
TextBody(text) == [kind |-> "Text", text |-> text]

\* Response::into_json_deserialize::<T>: serde ignores fields T does not
\* declare and fails on a missing field or on a body that is no JSON object
into_json_deserialize(T, body) ==
    IF T = "GetResp"
    THEN IF body.kind = "GetResp"
         THEN Ok([id |-> body.id, schema |-> body.schema])
         ELSE RIo
    ELSE IF body.kind \in {"GetResp", "PostResp"}
         THEN Ok([id |-> body.id])
         ELSE RIo

\* registry.rs do_request: the synthetic error first, then the four statuses
\* the match names, then the decoding of every other response
do_request(T, r) ==
    IF r.synthetic THEN RInternal(r.body)
    ELSE IF r.status = 404 THEN RNotFound
    ELSE IF r.status = 422 THEN RInvalid
    ELSE IF r.status = 409 THEN RConflict
    ELSE IF r.status = 500 THEN RRegistryInternal
    ELSE into_json_deserialize(T, r.body)

\* the statuses a registry answers with
Statuses == {200, 201, 204, 400, 401, 403, 404, 409, 422, 500, 501, 502, 503, 599}

\* ureq answers a transport failure with a synthetic response of status 400
\* or 500 whose body is the description of the failure
SyntheticStatuses == {400, 500}

ResponseBodies == {GetBody(U32(0, 1), "\"string\""), PostBody(U32(0, 1)),
            TextBody("{\"error_code\":50001}"), TextBody("")}

Responses ==
    [synthetic : {FALSE}, status : Statuses, body : ResponseBodies]
    \cup [synthetic : {TRUE}, status : SyntheticStatuses,
          body : {TextBody("Dns Failed"), TextBody("Connection Failed")}]

RegInit ==
    /\ RegIdle
    /\ MapIdle
    /\ FrameIdle
    /\ PipeIdle

\* registry.rs get_schema_by_subject: GET, decoded as GetResp
GetSchemaBySubject ==
    /\ method = "none"
    /\ \E r \in Responses :
          /\ resp' = r
          /\ reg_result' = do_request("GetResp", r)
    /\ method' = "get"
    /\ UNCHANGED <<mapVars, frameVars, pipeVars>>

\* registry.rs register_schema: POST, decoded as PostResp
RegisterSchema ==
    /\ method = "none"
    /\ \E r \in Responses :
          /\ resp' = r
          /\ reg_result' = do_request("PostResp", r)
    /\ method' = "post"
    /\ UNCHANGED <<mapVars, frameVars, pipeVars>>

RegNext == GetSchemaBySubject \/ RegisterSchema

SpecReg == RegInit /\ [][RegNext]_vars

(***************************************************************************)
(* The publish pipeline: main.rs produce, then producer.rs                 *)
(* Producer::produce with the broker's delivery callback.                  *)
(***************************************************************************)
RawLines == {"\"x\"", "null", "1", "{"}

\* data.rs parse_json (serde_json::from_str) on the lines the model uses
parse_json(s) ==
    CASE s = "\"x\"" -> Ok(JString("x"))
      [] s = "null" -> Ok(JNull)
      [] s = "1" -> Ok(JNumber(PosInt(0, 0, 1)))
      [] s = "true" -> Ok(JBool(TRUE))
      [] OTHER -> Err

InvalidSchema == [k |-> "Invalid"]

PipeSchemas == {SString, SLong, NullableString, InvalidSchema}

\* avro parse_schema (Schema::parse_str) on an already structured schema text
parse_schema(raw) == IF raw = InvalidSchema THEN Err ELSE Ok(raw)

\* avro map_with_schema: to_avro, its unit error turned into CliError::Mapping
map_with_schema(js, sch) == to_avro(js, sch)

\* the two encoders main.rs chooses between
encode_unframed(v, sch) == to_avro_datum(sch, v)
encode_with_schema_id(v, sch, id) == encode(to_avro_datum(sch, v), id)

\* what the registry may answer: a transport or protocol error, or an id
RegistryAnswers == {Err, Ok(U32(0, 1)), Ok(U32(1, 7))}

PipeInit ==
    /\ ctx \in [is_avro : BOOLEAN, registry : BOOLEAN, schema : PipeSchemas]
    \* the text mode reads neither the schema nor the registry url
    /\ ~ctx.is_avro => (~ctx.registry /\ ctx.schema = SString)
    /\ payload \in SeqsUpTo(RawLines, MaxBatch)
    /\ pc = "start"
    /\ idx = 0
    /\ jsons = <<>>
    /\ run_schema = [id |-> U32(0, 0), schema |-> SNull]
    /\ avros = <<>>
    /\ encoded = <<>>
    /\ broker = [m \in 1..Len(payload) |-> "unsent"]
    /\ chan = <<>>
    /\ received = <<>>
    /\ result = "none"
    /\ MapIdle
    /\ FrameIdle
    /\ RegIdle

Fail(kind) == pc' = "failed" /\ result' = kind

\* main.rs 36, 56: Avro or plain text
Begin ==
    /\ pc = "start"
    /\ IF ctx.is_avro
       THEN pc' = "parse" /\ UNCHANGED encoded
       ELSE /\ encoded' = [i \in 1..Len(payload) |-> utf8(payload[i])]
            /\ pc' = "create"
    /\ UNCHANGED <<ctx, payload, idx, jsons, run_schema, avros, broker, chan, received,
                   result>>
    /\ UNCHANGED <<mapVars, frameVars, regVars>>

\* main.rs 37-40: the next line is parsed; the first error ends the run
ParseLine ==
    /\ pc = "parse"
    /\ idx < Len(payload)
    /\ LET r == parse_json(payload[idx + 1])
       IN  IF r.tag = "Ok"
           THEN /\ jsons' = Append(jsons, r.val)
                /\ idx' = idx + 1
                /\ UNCHANGED <<pc, result>>
           ELSE Fail("Json") /\ UNCHANGED <<jsons, idx>>
    /\ UNCHANGED <<ctx, payload, run_schema, avros, encoded, broker, chan, received>>
    /\ UNCHANGED <<mapVars, frameVars, regVars>>

ParseEnd ==
    /\ pc = "parse"
    /\ idx = Len(payload)
    /\ pc' = "schema"
    /\ idx' = 0
    /\ UNCHANGED <<ctx, payload, jsons, run_schema, avros, encoded, broker, chan,
                   received, result>>
    /\ UNCHANGED <<mapVars, frameVars, regVars>>

\* main.rs 43-45: the user's schema
ParseSchema ==
    /\ pc = "schema"
    /\ ~ctx.registry
    /\ LET r == parse_schema(ctx.schema)
       IN  IF r.tag = "Ok"
           THEN /\ run_schema' = [id |-> U32(0, 0), schema |-> r.val]
                /\ pc' = "map"
                /\ UNCHANGED result
           ELSE Fail("Schema") /\ UNCHANGED run_schema
    /\ UNCHANGED <<ctx, payload, idx, jsons, avros, encoded, broker, chan, received>>
    /\ UNCHANGED <<mapVars, frameVars, regVars>>

\* main.rs 49, avro.rs get_schema: the registry's id and schema
GetRegisteredSchema ==
    /\ pc = "schema"
    /\ ctx.registry
    /\ \E answer \in RegistryAnswers :
          LET r == IF answer.tag = "Ok" THEN parse_schema(ctx.schema) ELSE Err
          IN  IF r.tag = "Ok"
              THEN /\ run_schema' = [id |-> answer.val, schema |-> r.val]
                   /\ pc' = "map"
                   /\ UNCHANGED result
              ELSE Fail("Registry") /\ UNCHANGED run_schema
    /\ UNCHANGED <<ctx, payload, idx, jsons, avros, encoded, broker, chan, received>>
    /\ UNCHANGED <<mapVars, frameVars, regVars>>

\* jsons_to_avro dropping the lines that fail instead of ending the run
MapLineSkippingFailures ==
    /\ pc = "map"
    /\ idx < Len(jsons)
    /\ LET r == map_with_schema(jsons[idx + 1], run_schema.schema)
       IN  avros' = IF r.tag = "Ok" THEN Append(avros, r.val) ELSE avros
    /\ idx' = idx + 1
    /\ UNCHANGED <<ctx, payload, pc, result, jsons, run_schema, encoded, broker, chan,
                   received>>
    /\ UNCHANGED <<mapVars, frameVars, regVars>>

\* main.rs 73-78 jsons_to_avro: the next line is mapped; the first error ends
\* the run, a panic unwinds out of main
MapLine ==
    /\ pc = "map"
    /\ idx < Len(jsons)
    /\ LET r == map_with_schema(jsons[idx + 1], run_schema.schema)
       IN  CASE r.tag = "Ok" ->
                  /\ avros' = Append(avros, r.val)
                  /\ idx' = idx + 1
                  /\ UNCHANGED <<pc, result>>
             [] r.tag = "Err" -> Fail("Mapping") /\ UNCHANGED <<avros, idx>>
             [] r.tag = "Panic" ->
                  pc' = "panicked" /\ result' = "Panic" /\ UNCHANGED <<avros, idx>>
    /\ UNCHANGED <<ctx, payload, jsons, run_schema, encoded, broker, chan, received>>
    /\ UNCHANGED <<mapVars, frameVars, regVars>>

MapEnd ==
    /\ pc = "map"
    /\ idx = Len(jsons)
    /\ pc' = "encode"
    /\ idx' = 0
    /\ UNCHANGED <<ctx, payload, jsons, run_schema, avros, encoded, broker, chan,
                   received, result>>
    /\ UNCHANGED <<mapVars, frameVars, regVars>>

\* main.rs 62-71 encode: the next value is encoded; the first error ends the run
EncodeLine ==
    /\ pc = "encode"
    /\ idx < Len(avros)
    /\ LET r == IF ctx.registry
                THEN encode_with_schema_id(avros[idx + 1], run_schema.schema,
                                           run_schema.id)
                ELSE encode_unframed(avros[idx + 1], run_schema.schema)
       IN  IF r.tag = "Ok"
           THEN /\ encoded' = Append(encoded, r.bytes)
                /\ idx' = idx + 1
                /\ UNCHANGED <<pc, result>>
           ELSE Fail("Encode") /\ UNCHANGED <<encoded, idx>>
    /\ UNCHANGED <<ctx, payload, jsons, run_schema, avros, broker, chan, received>>
    /\ UNCHANGED <<mapVars, frameVars, regVars>>

\* main.rs 59: the encoded batch goes to Producer::produce
EncodeEnd ==
    /\ pc = "encode"
    /\ idx = Len(avros)
    /\ pc' = "create"
    /\ idx' = 0
    /\ UNCHANGED <<ctx, payload, jsons, run_schema, avros, encoded, broker, chan,
                   received, result>>
    /\ UNCHANGED <<mapVars, frameVars, regVars>>

\* producer.rs 17-24: the channel and the threaded producer; creation may fail
CreateProducer ==
    /\ pc = "create"
    /\ \E created \in BOOLEAN :
          IF created
          THEN pc' = "send" /\ idx' = 0 /\ UNCHANGED result
          ELSE Fail("Create") /\ UNCHANGED idx
    /\ UNCHANGED <<ctx, payload, jsons, run_schema, avros, encoded, broker, chan,
                   received>>
    /\ UNCHANGED <<mapVars, frameVars, regVars>>

\* the send loop going on after a rejected send
SendIgnoringRejection ==
    /\ pc = "send"
    /\ idx < Len(encoded)
    /\ \E accepted \in BOOLEAN :
          broker' = [broker EXCEPT ![idx + 1] = IF accepted THEN "queued" ELSE "rejected"]
    /\ idx' = idx + 1
    /\ UNCHANGED <<ctx, payload, pc, result, jsons, run_schema, avros, encoded, chan,
                   received>>
    /\ UNCHANGED <<mapVars, frameVars, regVars>>

\* producer.rs 26-30: the next payload is handed to the broker client, which
\* queues it or rejects it; `?` returns the rejection at once
Send ==
    /\ pc = "send"
    /\ idx < Len(encoded)
    /\ \E accepted \in BOOLEAN :
          IF accepted
          THEN /\ broker' = [broker EXCEPT ![idx + 1] = "queued"]
               /\ idx' = idx + 1
               /\ UNCHANGED <<pc, result>>
          ELSE /\ broker' = [broker EXCEPT ![idx + 1] = "rejected"]
               /\ Fail("Send")
               /\ UNCHANGED idx
    /\ UNCHANGED <<ctx, payload, jsons, run_schema, avros, encoded, chan, received>>
    /\ UNCHANGED <<mapVars, frameVars, regVars>>

\* success reported as soon as the last send call has returned
SendEndReportingSuccess ==
    /\ pc = "send"
    /\ idx = Len(encoded)
    /\ pc' = "done"
    /\ result' = "Ok"
    /\ UNCHANGED <<ctx, payload, idx, jsons, run_schema, avros, encoded, broker, chan,
                   received>>
    /\ UNCHANGED <<mapVars, frameVars, regVars>>

\* producer.rs 30-33: every payload was queued; the wait begins
SendEnd ==
    /\ pc = "send"
    /\ idx = Len(encoded)
    /\ pc' = "await"
    /\ idx' = 0
    /\ UNCHANGED <<ctx, payload, jsons, run_schema, avros, encoded, broker, chan,
                   received, result>>
    /\ UNCHANGED <<mapVars, frameVars, regVars>>

\* a delivery whose outcome never reaches the channel
DeliveryLosingOutcome ==
    /\ pc \in {"send", "await"}
    /\ \E m \in 1..Len(broker), outcome \in {"ok", "err"} :
          /\ broker[m] = "queued"
          /\ broker' = [broker EXCEPT ![m] = outcome]
    /\ UNCHANGED <<ctx, payload, pc, idx, jsons, run_schema, avros, encoded, chan,
                   received, result>>
    /\ UNCHANGED <<mapVars, frameVars, regVars>>

\* producer.rs 102-117 delivery: the broker's thread reports the outcome of
\* one queued message, in any order, into the channel
Delivery ==
    /\ pc \in {"send", "await"}
    /\ \E m \in 1..Len(broker), outcome \in {"ok", "err"} :
          /\ broker[m] = "queued"
          /\ broker' = [broker EXCEPT ![m] = outcome]
          /\ chan' = Append(chan, outcome)
    /\ UNCHANGED <<ctx, payload, pc, idx, jsons, run_schema, avros, encoded, received,
                   result>>
    /\ UNCHANGED <<mapVars, frameVars, regVars>>

\* the wait counting every outcome, a failure included, as a confirmation
RecvCountingFailures ==
    /\ pc = "await"
    /\ idx < Len(encoded)
    /\ chan # <<>>
    /\ chan' = Tail(chan)
    /\ received' = Append(received, Head(chan))
    /\ idx' = idx + 1
    /\ UNCHANGED <<ctx, payload, pc, result, jsons, run_schema, avros, encoded, broker>>
    /\ UNCHANGED <<mapVars, frameVars, regVars>>

\* producer.rs 33-35: one blocking recv per payload, collected into a
\* Result: the first Err ends the collection and is returned
Recv ==
    /\ pc = "await"
    /\ idx < Len(encoded)
    /\ chan # <<>>
    /\ chan' = Tail(chan)
    /\ received' = Append(received, Head(chan))
    /\ IF Head(chan) = "ok"
       THEN idx' = idx + 1 /\ UNCHANGED <<pc, result>>
       ELSE Fail("Delivery") /\ UNCHANGED idx
    /\ UNCHANGED <<ctx, payload, jsons, run_schema, avros, encoded, broker>>
    /\ UNCHANGED <<mapVars, frameVars, regVars>>

\* producer.rs 35: the range is exhausted, the collection is Ok(())
RecvEnd ==
    /\ pc = "await"
    /\ idx = Len(encoded)
    /\ pc' = "done"
    /\ result' = "Ok"
    /\ UNCHANGED <<ctx, payload, idx, jsons, run_schema, avros, encoded, broker, chan,
                   received>>
    /\ UNCHANGED <<mapVars, frameVars, regVars>>

Init == PipeInit

Next ==
    \/ Begin
    \/ ParseLine
    \/ ParseEnd
    \/ ParseSchema
    \/ GetRegisteredSchema
    \/ MapLine
    \/ MapEnd
    \/ EncodeLine
    \/ EncodeEnd
    \/ CreateProducer
    \/ Send
    \/ SendEnd
    \/ Delivery
    \/ Recv
    \/ RecvEnd

Spec == Init /\ [][Next]_vars

\* the main thread runs its next step whenever it has one (a blocked recv
\* is no step), and the broker's callback thread delivers the outcome of
\* every message that is queued
SpecLive ==
    /\ Init
    /\ [][Next]_vars
    /\ WF_vars(CreateProducer)
    /\ WF_vars(Send)
    /\ WF_vars(SendEnd)
    /\ WF_vars(Recv)
    /\ WF_vars(RecvEnd)
    /\ WF_vars(Delivery)

(***************************************************************************)
(* Properties of Producer::produce and of main.rs produce, under Spec.     *)
(***************************************************************************)
Returned == pc \in {"done", "failed"}

\* produce returned from the wait for acknowledgments: every payload of the
\* batch had been accepted by the broker client
WaitedForAcks == Returned /\ result \in {"Ok", "Delivery"}

AllAccepted == \A m \in 1..Len(broker) : broker[m] \in {"queued", "ok", "err"}

\* C1: when all N messages were accepted, produce reports success if and
\* only if every one of the N delivery outcomes is a success, whatever the
\* order the outcomes arrive in; Done is never reached with a failed outcome.
C1_SuccessIffEveryOutcomeSuccess ==
    /\ WaitedForAcks =>
          /\ AllAccepted
          /\ (result = "Ok") <=> (\A m \in 1..Len(broker) : broker[m] = "ok")
    /\ pc = "done" => result = "Ok" /\ \A m \in 1..Len(broker) : broker[m] # "err"

\* C1 witness: a failure reported for a batch of three whose second message's
\* success arrived before the first message's failure.
C1_Witness ==
    /\ pc = "failed"
    /\ result = "Delivery"
    /\ broker = <<"err", "ok", "queued">>
    /\ received = <<"ok", "err">>

\* C2: success is reported only once the calling thread has received all N
\* outcomes, all of them successes; while fewer than N have been received,
\* the last send call having returned or not, no success is reported.
C2_SuccessOnlyAfterAllOutcomes ==
    /\ result = "Ok" =>
          /\ Len(received) = Len(encoded)
          /\ \A i \in 1..Len(received) : received[i] = "ok"
    /\ (pc \in {"send", "await"} /\ Len(received) < Len(encoded)) => result = "none"

\* C2 witness: success reported after three received outcomes.
C2_Witness == pc = "done" /\ result = "Ok" /\ Len(received) = 3 /\ Len(encoded) = 3

\* C3: when produce returns from the wait, with success or with a delivery
\* failure, it has received one outcome per message enqueued.
C3_DrainsEveryOutcome == WaitedForAcks => Len(received) = Len(encoded)

\* line k of the payload parses, and its mapping or its encoding fails
LineFails(k) ==
    LET j == parse_json(payload[k])
        sch == parse_schema(ctx.schema)
    IN  /\ j.tag = "Ok"
        /\ sch.tag = "Ok"
        /\ LET r == to_avro(j.val, sch.val)
           IN  \/ r.tag # "Ok"
               \/ to_avro_datum(sch.val, r.val).tag # "Ok"

\* C4: when any line of an Avro batch fails mapping or encoding, no message
\* of the batch is ever handed to the broker, the producer is never entered,
\* and the run does not end Done.
C4_NoSendOnEncodingFailure ==
    (ctx.is_avro /\ \E k \in 1..Len(payload) : LineFails(k)) =>
        /\ \A m \in 1..Len(broker) : broker[m] = "unsent"
        /\ pc \notin {"create", "send", "await", "done"}
        /\ result # "Ok"
        /\ chan = <<>>

\* C4 witness: the third line fails mapping after two lines were mapped.
C4_Witness ==
    /\ pc = "failed"
    /\ result = "Mapping"
    /\ Len(avros) = 2
    /\ \A m \in 1..Len(broker) : broker[m] = "unsent"

\* C5: once the broker client has rejected the send of message j, produce
\* has failed with that error, no later message has been offered to the
\* broker, and no delivery outcome has been received.
C5_RejectionFailsAtOnce ==
    \A j \in 1..Len(broker) :
        broker[j] = "rejected" =>
            /\ pc = "failed"
            /\ result = "Send"
            /\ idx = j - 1
            /\ \A m \in (j + 1)..Len(broker) : broker[m] = "unsent"
            /\ received = <<>>

\* C5 witness: the second of three sends rejected while the first message's
\* outcome already waits in the channel.
C5_Witness ==
    /\ broker = <<"ok", "rejected", "unsent">>
    /\ chan = <<"ok">>
    /\ received = <<>>
    /\ pc = "failed"

(***************************************************************************)
(* Properties of the framing, under SpecFrame.                             *)
(***************************************************************************)
\* C6: a framed encoding is five bytes longer than the body, byte 0 is 0x00,
\* bytes 1..4 are the schema id in big-endian order, the rest is the body.
C6_FrameLayout ==
    framed.tag = "Ok" =>
        LET out == framed.bytes
            body == datum.bytes
        IN  /\ Len(out) = Len(body) + 5
            /\ out[1] = 0
            /\ \A i \in 2..5 : out[i] \in 0..255
            /\ out[2] \div 128 = schema_id.top
            /\ (out[2] % 128) * Pow2(24) + out[3] * Pow2(16) + out[4] * Pow2(8) + out[5]
                  = schema_id.low
            /\ SubSeq(out, 6, Len(out)) = body

\* C6 witness: the id 0x01020304 framed before a two-byte body.
C6_Witness ==
    /\ framed.tag = "Ok"
    /\ schema_id = U32(0, 16909060)
    /\ datum = OkBytes(<<255, 1>>)
    /\ framed.bytes = <<0, 1, 2, 3, 4, 255, 1>>

(***************************************************************************)
(* Properties of the value mapper, under SpecMap.                          *)
(***************************************************************************)
HasKey(entries, name) == \E i \in 1..Len(entries) : entries[i].key = name

\* the JSON value a record field is mapped from: the entry of that name, or
\* JSON null when the object has none
FieldJson(entries, name) ==
    IF HasKey(entries, name)
    THEN entries[CHOOSE i \in 1..Len(entries) : entries[i].key = name].value
    ELSE JNull

\* C7: a record value mapped from a JSON object has one entry per field of
\* the schema, in the schema's order, each mapped from the object's value of
\* that name, or from JSON null when the object has no such key.
C7_RecordFollowsSchemaFields ==
    (mapped.tag = "Ok" /\ schema.k = "Record" /\ json.j = "Object") =>
        /\ mapped.val.t = "Record"
        /\ Len(mapped.val.fields) = Len(schema.fields)
        /\ \A i \in 1..Len(schema.fields) :
              /\ mapped.val.fields[i].name = schema.fields[i].name
              /\ Ok(mapped.val.fields[i].value)
                    = to_avro(FieldJson(json.entries, schema.fields[i].name),
                              schema.fields[i].schema)

HasBranch(kind) == find_schema(schema.schemas, kind) # 0

\* the branch the fixed priority Long, Int, Float, Double selects
PriorityBranch ==
    or_else(find_schema(schema.schemas, "Long"),
            or_else(find_schema(schema.schemas, "Int"),
                    or_else(find_schema(schema.schemas, "Float"),
                            find_schema(schema.schemas, "Double"))))

\* C8: a JSON number mapped against a union is mapped against the first
\* branch present among Long, Int, Float, Double, whatever the order the
\* union declares its branches in: what the mapper returns is what that
\* branch gives.
C8_NumberBranchPriority ==
    (mapped.tag \in {"Ok", "Err"} /\ schema.k = "Union" /\ json.j = "Number" /\ PriorityBranch # 0) =>
        mapped = to_avro(json, schema.schemas[PriorityBranch])

\* C9: a value the mapper returns conforms with the schema it was given; a
\* union value wraps a value of a branch the union has.
C9_MappedValueConforms ==
    mapped.tag = "Ok" =>
        /\ validate(mapped.val, schema)
        /\ mapped.val.t = "Union" =>
              schema.k = "Union" /\ HasBranch(mapped.val.inner.t)

\* C10: the mapper ends by returning a value or an error; it never aborts.
C10_MapperNeverAborts == mapped.tag # "Panic"

\* a schema that a JSON null can be mapped against: null, or a union with a
\* null branch
NullTolerant(sch) ==
    \/ sch.k = "Null"
    \/ sch.k = "Union" /\ find_schema(sch.schemas, "Null") # 0

\* the record schema declares a field that tolerates no null and that the
\* JSON object lacks
LacksRequiredField ==
    /\ schema.k = "Record"
    /\ json.j = "Object"
    /\ \E i \in 1..Len(schema.fields) :
          /\ ~NullTolerant(schema.fields[i].schema)
          /\ ~HasKey(json.entries, schema.fields[i].name)

\* C11: a JSON object that lacks a non-nullable field of the record schema
\* is answered with a mapping error, never with a record value.
C11_MissingRequiredFieldFails ==
    (mapped # NotMapped /\ LacksRequiredField) => mapped.tag = "Err"

\* the integral number lies in the range of i32
InI32(n) ==
    IF n.form = "PosInt"
    THEN n.top = 0 /\ n.hi = 0
    ELSE n.top = 0 /\ (n.hi = 0 \/ (n.hi = 1 /\ n.lo = 0))

\* the i32 of an integral number in the range of i32
ExactI32(n) ==
    IF n.form = "PosInt" THEN n.lo
    ELSE IF n.hi = 0 THEN 0 - n.lo ELSE I32Min

\* C12: a JSON number mapped against Int or Long is accepted only without a
\* fractional component and only inside the target's range, with its exact
\* value; outside the range the mapper returns a mapping error: no panic,
\* no truncated, wrapped or saturated value.
C12_IntegralInRangeOrError ==
    (mapped # NotMapped /\ json.j = "Number" /\ schema.k \in {"Int", "Long"}) =>
        /\ mapped.tag # "Panic"
        /\ mapped.tag = "Ok" => json.n.form # "Float"
        /\ (mapped.tag = "Ok" /\ schema.k = "Int") =>
              InI32(json.n) /\ mapped.val = VInt(ExactI32(json.n))
        /\ (mapped.tag = "Ok" /\ schema.k = "Long") =>
              is_i64(json.n) /\ mapped.val = VLong(json.n)
        /\ (schema.k = "Int" /\ json.n.form # "Float" /\ ~InI32(json.n)) =>
              mapped.tag = "Err"

\* C13: every JSON number, written as an integer or with a fraction, maps
\* against Float and against Double.
C13_FloatAcceptsEveryNumber ==
    (mapped # NotMapped /\ json.j = "Number" /\ schema.k \in {"Float", "Double"}) =>
        mapped.tag = "Ok"

IsSymbol(symbols, s) == \E i \in 1..Len(symbols) : symbols[i] = s

\* C14: a JSON string mapped against an enum yields the enum value of that
\* symbol when the string is one of the symbols, and a mapping error only
\* when it is none of them.
C14_EnumSymbolMaps ==
    (mapped # NotMapped /\ json.j = "String" /\ schema.k = "Enum") =>
        IF IsSymbol(schema.symbols, json.s)
        THEN /\ mapped.tag = "Ok"
             /\ mapped.val.t = "Enum"
             /\ mapped.val.symbol = json.s
             /\ schema.symbols[mapped.val.index + 1] = json.s
        ELSE mapped.tag = "Err"

\* C15: for resolve and for register, a response of status 404 yields
\* NotFound, 409 Conflict, 422 Invalid, every status of 500..599
\* RegistryInternal, every other status outside 200..299 Internal with the
\* response body, and only a response of 200..299 is decoded as a success.
C15_StatusToErrorKind ==
    (reg_result # NotMapped /\ ~resp.synthetic) =>
        /\ resp.status = 404 => reg_result = RNotFound
        /\ resp.status = 409 => reg_result = RConflict
        /\ resp.status = 422 => reg_result = RInvalid
        /\ resp.status \in 500..599 => reg_result = RRegistryInternal
        /\ (resp.status \notin 200..299 /\ resp.status \notin 500..599
              /\ resp.status \notin {404, 409, 422}) =>
              reg_result = RInternal(resp.body)
        /\ reg_result.tag = "Ok" => resp.status \in 200..299

(***************************************************************************)
(* Termination of Producer::produce, under SpecLive.                       *)
(***************************************************************************)
InProduce == pc \in {"create", "send", "await"}

\* recv is blocked: an outcome is still expected and the channel is empty
Blocked == pc = "await" /\ idx < Len(encoded) /\ chan = <<>>

\* the outcomes the callback delivered so far
Delivered == {m \in 1..Len(broker) : broker[m] \in {"ok", "err"}}

\* C16: with a callback thread that delivers one outcome for every accepted
\* send, every call of Producer::produce returns, and recv is blocked only
\* while fewer outcomes were delivered than payloads were accepted.
C16_ProduceReturns ==
    /\ InProduce ~> Returned
    /\ [](Blocked => Cardinality(Delivered) < Len(encoded))

\* recv blocked after a first confirmation, the next outcome not delivered
C16_Witness ==
    /\ Blocked
    /\ idx > 0
    /\ \E m \in 1..Len(broker) : broker[m] = "queued"

====
